---- MODULE Spec2Model ----
(***************************************************************************)
(* A model of pptx-to-html5: construction of PowerPointToHTML5Converter,   *)
(* convert() writing index.html / styles.css / script.js, and the          *)
(* navigation script of the rendered page (src/src/pptx_tools/converter.py)*)
(*                                                                         *)
(* Text is a sequence of one-character strings, so that strip() and        *)
(* lower() do real work.  The rendered markup is the sequence of elements  *)
(* the Jinja2 template emits; text is character data without markup (the   *)
(* template inserts it unescaped, which the model does not explore).       *)
(***************************************************************************)
EXTENDS Integers, Sequences, FiniteSets, TLC

VARIABLES
    pptx_path,      \* the source file: [exists, suffix, content]
    ctor,           \* outcome of PowerPointToHTML5Converter.__init__
    fs,             \* the output directory: [dir, files]
    result,         \* outcome of the last convert() call: [status, path]
    runs,           \* history: the number of convert() calls made
    last,           \* history: the last convert() call, [include_notes, io, before]
    firstOut,       \* history: per include_notes, the files its first successful convert() left
    page,           \* the browser page: "closed", "ready" (listeners registered) or "crashed"
    currentSlide,   \* script.js: let currentSlide
    totalSlides,    \* script.js: let totalSlides
    dom,            \* what the page displays: [active, counter, total, progress, prevDisabled, nextDisabled]
    lastOp,         \* history: the last navigation call made, [name, arg, from]
    touchStartX,    \* script.js: let touchStartX
    touchEndX,      \* script.js: let touchEndX
    lastEvent,      \* history: the last event the page received, [type, key, from, startX]
    ex,             \* _extract_slide_content under way: [slide, pos, content, titleAt, done]
    cli             \* outcome of main(): [exit_code, stdout, stderr, failure]

vars ==
    <<pptx_path, ctor, fs, result, runs, last, firstOut,
      page, currentSlide, totalSlides, dom, lastOp, touchStartX, touchEndX, lastEvent,
      ex, cli>>

otherVars == <<ex, cli>>
pipeVars == <<pptx_path, ctor, fs, result, runs, last, firstOut, ex, cli>>
pageVars ==
    <<page, currentSlide, totalSlides, dom, lastOp, touchStartX, touchEndX, lastEvent>>

(***************************************************************************)
(* Bounds of the model.                                                    *)
(***************************************************************************)
MaxSlides == 3
MaxRuns == 3


(***************************************************************************)
(* Text: str.strip() and str.lower().                                      *)
(***************************************************************************)
Whitespace == {" ", "\n"}

RECURSIVE lstrip(_)
lstrip(s) == IF s # <<>> /\ Head(s) \in Whitespace THEN lstrip(Tail(s)) ELSE s

RECURSIVE rstrip(_)
rstrip(s) ==
    IF s # <<>> /\ s[Len(s)] \in Whitespace THEN rstrip(SubSeq(s, 1, Len(s) - 1)) ELSE s

strip(s) == rstrip(lstrip(s))

lowerChar(c) ==
    CASE c = "P" -> "p"
      [] c = "T" -> "t"
      [] c = "X" -> "x"
      [] OTHER -> c

lower(s) == [i \in DOMAIN s |-> lowerChar(s[i])]

(***************************************************************************)
(* The parsed presentation (python-pptx): slides of shapes.  A shape may   *)
(* or may not expose .text and .text_frame; top is its top coordinate.     *)
(***************************************************************************)
MaxShapes == 3
SlideHeight == 8
TopHigh == 0
TopLow == 4

TextShape(t, top) ==
    [has_text |-> TRUE, text |-> t, has_text_frame |-> TRUE, top |-> top]

Picture(top) ==
    [has_text |-> FALSE, text |-> <<>>, has_text_frame |-> FALSE, top |-> top]

\* An object with a text attribute and no text_frame attribute.
TextOnly(t, top) ==
    [has_text |-> TRUE, text |-> t, has_text_frame |-> FALSE, top |-> top]

MkSlide(shapes, has_notes, frame) ==
    [shapes |-> shapes, has_notes_slide |-> has_notes, notes_text_frame |-> frame]

\* The slides the decks of the model are made of.
NoFrame == [present |-> FALSE, text |-> <<>>]
Frame(t) == [present |-> TRUE, text |-> t]

SlideA == MkSlide(<<TextShape(<<"A">>, TopHigh), TextShape(<<" ", "b", "\n">>, TopLow)>>,
                  TRUE, Frame(<<" ", "n">>))
SlideB == MkSlide(<<Picture(TopHigh), TextShape(<<"B">>, TopLow), TextShape(<<"A">>, TopHigh)>>,
                  FALSE, NoFrame)
SlideC == MkSlide(<<TextShape(<<" ">>, TopHigh), TextShape(<<>>, TopHigh)>>,
                  TRUE, NoFrame)

DeckSlides == {SlideA, SlideB, SlideC}

SeqsUpTo(S, n) == UNION {[1..k -> S] : k \in 0..n}

NoHeight == [known |-> FALSE, emu |-> 0]
Height(h) == [known |-> TRUE, emu |-> h]

Decks ==
    {[slides |-> s, slide_height |-> h] :
        s \in SeqsUpTo(DeckSlides, MaxSlides), h \in {NoHeight, Height(SlideHeight)}}

(***************************************************************************)
(* _extract_slide_content: the title, the text list and the notes of one   *)
(* slide.  The loop over slide.shapes is a fold carrying content.          *)
(***************************************************************************)
\* Mutant: the loop body without its inner "if text:".
extract_shape_noTextCheck(content, shape) ==
    IF shape.has_text /\ shape.text # <<>>
    THEN LET text == strip(shape.text) IN
         IF content.title = <<>> /\ shape.has_text_frame
         THEN [content EXCEPT !.title = text]
         ELSE [content EXCEPT !.text = Append(@, text)]
    ELSE content

\* Mutant: the loop body where a shape with a text frame always becomes the title.
extract_shape_lastTitle(content, shape) ==
    IF shape.has_text /\ shape.text # <<>>
    THEN LET text == strip(shape.text) IN
         IF text # <<>>
         THEN IF shape.has_text_frame
              THEN [content EXCEPT !.title = text]
              ELSE [content EXCEPT !.text = Append(@, text)]
         ELSE content
    ELSE content

extract_shape(content, shape) ==
    IF shape.has_text /\ shape.text # <<>>
    THEN LET text == strip(shape.text) IN
         IF text # <<>>
         THEN IF content.title = <<>> /\ shape.has_text_frame
              THEN [content EXCEPT !.title = text]
              ELSE [content EXCEPT !.text = Append(@, text)]
         ELSE content
    ELSE content

RECURSIVE extract_shapes(_, _)
extract_shapes(content, shapes) ==
    IF shapes = <<>> THEN content
    ELSE extract_shapes(extract_shape(content, Head(shapes)), Tail(shapes))

extract_notes(slide) ==
    IF slide.has_notes_slide /\ slide.notes_text_frame.present
    THEN strip(slide.notes_text_frame.text)
    ELSE <<>>

extract_slide_content(slide) ==
    [extract_shapes([title |-> <<>>, text |-> <<>>, notes |-> <<>>], slide.shapes)
        EXCEPT !.notes = extract_notes(slide)]

(***************************************************************************)
(* _slide_to_image: a blank 1280x720 PNG as a data URI, the same for every *)
(* slide.                                                                  *)
(***************************************************************************)
slide_to_image(slide, slide_number) == "data:image/png;base64,blank1280x720"

(***************************************************************************)
(* convert, lines 112-123: the slide data handed to the template.          *)
(***************************************************************************)
slide_notes(slide_content, include_notes) ==
    IF include_notes THEN slide_content.notes ELSE <<>>

slide_data(slide, i, include_notes) ==
    LET slide_content == extract_slide_content(slide) IN
    [number |-> i + 1,
     image |-> slide_to_image(slide, i),
     title |-> slide_content.title,
     text |-> slide_content.text,
     notes |-> slide_notes(slide_content, include_notes)]

slides_data(slides, include_notes) ==
    [k \in 1..Len(slides) |-> slide_data(slides[k], k - 1, include_notes)]

(***************************************************************************)
(* _generate_html: what the template emits.  A block of a slide container  *)
(* is [class, paragraphs, src, alt]; an {% if %} that fails emits nothing. *)
(***************************************************************************)
Block(class, paragraphs, src, alt) ==
    [class |-> class, paragraphs |-> paragraphs, src |-> src, alt |-> alt]

title_block(slide) ==
    IF slide.title # <<>>
    THEN <<Block("slide-title", <<slide.title>>, "", 0)>>
    ELSE <<>>

image_block(slide) ==
    IF slide.image # ""
    THEN <<Block("slide-image", <<>>, slide.image, slide.number)>>
    ELSE <<>>

text_block(slide) ==
    IF slide.text # <<>>
    THEN <<Block("slide-text", slide.text, "", 0)>>
    ELSE <<>>

\* Mutant: the notes block without its {% if %}.
notes_block_always(slide, include_notes) ==
    <<Block("slide-notes", <<slide.notes>>, "", 0)>>

notes_block(slide, include_notes) ==
    IF include_notes /\ slide.notes # <<>>
    THEN <<Block("slide-notes", <<slide.notes>>, "", 0)>>
    ELSE <<>>

\* Mutant: the class active is written on every container.
slide_class_allActive(loop_first) == {"slide", "active"}

slide_class(loop_first) == IF loop_first THEN {"slide", "active"} ELSE {"slide"}

render_slide(slide, loop_first, include_notes) ==
    [class |-> slide_class(loop_first),
     data_slide |-> slide.number,
     content |-> title_block(slide) \o image_block(slide) \o text_block(slide)
                     \o notes_block(slide, include_notes)]

page_title(data) ==
    IF data # <<>> /\ data[1].title # <<>> THEN data[1].title ELSE <<"Presentation">>

generate_html(data, include_notes) ==
    [kind |-> "html",
     title |-> page_title(data),
     slides |-> [k \in 1..Len(data) |-> render_slide(data[k], k = 1, include_notes)],
     currentSlide |-> 1,
     totalSlides |-> Len(data)]

generate_css == [kind |-> "css"]

generate_js == [kind |-> "js"]

(***************************************************************************)
(* The output directory.  dir is "absent", "dir" or "file" (the path names *)
(* something that is no directory); each of the three files is NoFile or   *)
(* its content.  io names the first file-system call the environment makes *)
(* fail ("none": no call fails).                                           *)
(***************************************************************************)
FileNames == {"index.html", "styles.css", "script.js"}
IOFailures == {"none", "mkdir", "index.html", "styles.css", "script.js"}

NoFile == [kind |-> "nofile"]
Stale == [kind |-> "stale"]

EmptyDir == [n \in FileNames |-> NoFile]
StaleDir == [n \in FileNames |-> Stale]

\* Path.mkdir(parents=True, exist_ok=True)
mkdir(f, io) ==
    IF f.dir = "file" \/ io = "mkdir"
    THEN [ok |-> FALSE, fs |-> f]
    ELSE [ok |-> TRUE, fs |-> [f EXCEPT !.dir = "dir"]]

\* Mutant: the file is opened for appending.
write_text_append(f, name, content, io) ==
    IF io = name
    THEN [ok |-> FALSE, fs |-> f]
    ELSE [ok |-> TRUE,
          fs |-> [f EXCEPT !.files[name] =
                     IF @ = [kind |-> "nofile"] THEN content
                     ELSE [kind |-> "appended", old |-> @, new |-> content]]]

\* Path.write_text: the file holds exactly the new content afterwards.
write_text(f, name, content, io) ==
    IF io = name
    THEN [ok |-> FALSE, fs |-> f]
    ELSE [ok |-> TRUE, fs |-> [f EXCEPT !.files[name] = content]]

Raised(f) == [status |-> "raised", path |-> "", fs |-> f]
Returned(f, path) == [status |-> "returned", path |-> path, fs |-> f]

\* Mutant: a failed write of styles.css or script.js is swallowed.
convert_swallow(f, presentation, include_notes, io) ==
    LET d == mkdir(f, io) IN
    IF ~d.ok THEN Raised(d.fs) ELSE
    LET html_content == generate_html(slides_data(presentation.slides, include_notes),
                                      include_notes)
        h == write_text(d.fs, "index.html", html_content, io) IN
    IF ~h.ok THEN Raised(h.fs) ELSE
    LET c == write_text(h.fs, "styles.css", generate_css, io)
        j == write_text(c.fs, "script.js", generate_js, io) IN
    Returned(j.fs, "index.html")

(***************************************************************************)
(* convert(output_dir, include_notes): the directory, then the three       *)
(* writes in order; an exception of any call ends it.                      *)
(***************************************************************************)
convert(f, presentation, include_notes, io) ==
    LET d == mkdir(f, io) IN
    IF ~d.ok THEN Raised(d.fs) ELSE
    LET html_content == generate_html(slides_data(presentation.slides, include_notes),
                                      include_notes)
        h == write_text(d.fs, "index.html", html_content, io) IN
    IF ~h.ok THEN Raised(h.fs) ELSE
    LET c == write_text(h.fs, "styles.css", generate_css, io) IN
    IF ~c.ok THEN Raised(c.fs) ELSE
    LET j == write_text(c.fs, "script.js", generate_js, io) IN
    IF ~j.ok THEN Raised(j.fs) ELSE
    Returned(j.fs, "index.html")

(***************************************************************************)
(* PowerPointToHTML5Converter.__init__: the three checks, in order.        *)
(***************************************************************************)
PptxSuffix == <<".", "p", "p", "t", "x">>

\* The spellings of the extension that name a presentation file.
PptxSpellings == {PptxSuffix, <<".", "P", "p", "T", "X">>}

Suffixes == PptxSpellings \cup {<<".", "t", "x", "t">>, <<>>}

EmptyDeck == [slides |-> <<>>, slide_height |-> NoHeight]

\* What the file holds: nothing (no such file), bytes that do not parse, or a deck.
FileContents ==
    {[kind |-> "garbage", deck |-> EmptyDeck]} \cup {[kind |-> "pptx", deck |-> d] : d \in Decks}

Paths ==
    {[exists |-> FALSE, suffix |-> x, content |-> [kind |-> "none", deck |-> EmptyDeck]] :
        x \in Suffixes}
    \cup {[exists |-> TRUE, suffix |-> x, content |-> c] : x \in Suffixes, c \in FileContents}

Outcome(error, message) == [error |-> error, message |-> message]

\* Mutant: the extension is checked before the path's existence.
init_converter_extFirst(path) ==
    IF ~(lower(path.suffix) = PptxSuffix)
    THEN Outcome("ValueError", "File must be a .pptx file")
    ELSE IF ~path.exists
    THEN Outcome("FileNotFoundError", "File not found")
    ELSE IF path.content.kind # "pptx"
    THEN Outcome("ValueError", "Invalid PowerPoint file")
    ELSE Outcome("ok", "")

init_converter(path) ==
    IF ~path.exists
    THEN Outcome("FileNotFoundError", "File not found")
    ELSE IF ~(lower(path.suffix) = PptxSuffix)
    THEN Outcome("ValueError", "File must be a .pptx file")
    ELSE IF path.content.kind # "pptx"
    THEN Outcome("ValueError", "Invalid PowerPoint file")
    ELSE Outcome("ok", "")

(***************************************************************************)
(* cli.py, main() from the try of line 64: the converter is built, convert *)
(* is called, and an exception of either is taken by the first except      *)
(* clause its class matches.  An exception convert raises is an OSError of *)
(* mkdir or write_text.                                                    *)
(***************************************************************************)
Diagnostic(prefix, message) == [prefix |-> prefix, message |-> message]

\* Mutant: without "except FileNotFoundError" the exception reaches "except Exception".
except_clause_noFileNotFound(error, message) ==
    IF error = "ValueError" THEN Diagnostic("Error", message)
    ELSE Diagnostic("Unexpected error", message)

\* Lines 75-83: what is printed to sys.stderr for an exception of class error.
except_clause(error, message) ==
    IF error = "FileNotFoundError" THEN Diagnostic("Error", message)
    ELSE IF error = "ValueError" THEN Diagnostic("Error", message)
    ELSE Diagnostic("Unexpected error", message)

main(path, f, include_notes, io) ==
    LET converter == init_converter(path) IN
    IF converter.error # "ok"
    THEN [ctor |-> converter, fs |-> f, result |-> [status |-> "none", path |-> ""],
          exit_code |-> 1, stdout |-> <<>>,
          stderr |-> <<except_clause(converter.error, converter.message)>>]
    ELSE LET output_file == convert(f, path.content.deck, include_notes, io) IN
         IF output_file.status = "raised"
         THEN [ctor |-> converter, fs |-> output_file.fs,
               result |-> [status |-> "raised", path |-> ""],
               exit_code |-> 1, stdout |-> <<>>,
               stderr |-> <<except_clause("OSError", "OSError")>>]
         ELSE [ctor |-> converter, fs |-> output_file.fs,
               result |-> [status |-> "returned", path |-> output_file.path],
               exit_code |-> 0,
               stdout |-> <<"Successfully converted", "Output", "Open">>,
               stderr |-> <<>>]

(***************************************************************************)
(* script.js.  The display is the DOM the script reads and writes:         *)
(* active[k] is whether the k-th .slide carries the class active.          *)
(***************************************************************************)
RECURSIVE gcd(_, _)
gcd(a, b) == IF b = 0 THEN a ELSE gcd(b, a % b)

\* (currentSlide / totalSlides) * 100 as the fraction num/den in lowest terms;
\* den = 0 is the Infinity a division by zero gives.
progress(cur, total) ==
    LET g == gcd(100 * cur, total) IN
    [set |-> TRUE, num |-> (100 * cur) \div g, den |-> total \div g]

NoProgress == [set |-> FALSE, num |-> 0, den |-> 1]

NoDom ==
    [active |-> <<>>, counter |-> 0, total |-> 0, progress |-> NoProgress,
     prevDisabled |-> FALSE, nextDisabled |-> FALSE]

\* The DOM of the markup as the browser parses it, before any script runs.
parse_html(html) ==
    [active |-> [k \in 1..Len(html.slides) |-> "active" \in html.slides[k].class],
     counter |-> html.currentSlide,
     total |-> html.totalSlides,
     progress |-> NoProgress,
     prevDisabled |-> FALSE,
     nextDisabled |-> FALSE]

\* slides[currentSlide - 1] is undefined outside 0..slides.length-1, and
\* .classList of undefined throws after the forEach has run.
updateSlide(cur, total, d) ==
    LET n == Len(d.active)
        hidden == [k \in 1..n |-> FALSE] IN
    IF ~((cur - 1) \in 0..(n - 1))
    THEN [threw |-> TRUE, dom |-> [d EXCEPT !.active = hidden]]
    ELSE [threw |-> FALSE,
          dom |-> [d EXCEPT !.active = [hidden EXCEPT ![cur] = TRUE],
                            !.counter = cur,
                            !.progress = progress(cur, total),
                            !.prevDisabled = (cur = 1),
                            !.nextDisabled = (cur = total)]]

Js(cur, d, threw) == [currentSlide |-> cur, dom |-> d, threw |-> threw]

nextSlide(cur, total, d) ==
    IF cur < total
    THEN LET u == updateSlide(cur + 1, total, d) IN Js(cur + 1, u.dom, u.threw)
    ELSE Js(cur, d, FALSE)

\* Mutant: the guard of previousSlide admits slide 1.
previousSlide_noGuard(cur, total, d) ==
    IF cur >= 1
    THEN LET u == updateSlide(cur - 1, total, d) IN Js(cur - 1, u.dom, u.threw)
    ELSE Js(cur, d, FALSE)

previousSlide(cur, total, d) ==
    IF cur > 1
    THEN LET u == updateSlide(cur - 1, total, d) IN Js(cur - 1, u.dom, u.threw)
    ELSE Js(cur, d, FALSE)

\* Mutant: goToSlide without its upper bound.
goToSlide_noUpper(slideNumber, cur, total, d) ==
    IF slideNumber >= 1
    THEN LET u == updateSlide(slideNumber, total, d) IN Js(slideNumber, u.dom, u.threw)
    ELSE Js(cur, d, FALSE)

goToSlide(slideNumber, cur, total, d) ==
    IF slideNumber >= 1 /\ slideNumber <= total
    THEN LET u == updateSlide(slideNumber, total, d) IN Js(slideNumber, u.dom, u.threw)
    ELSE Js(cur, d, FALSE)

\* The keydown listener of the document, lines 474-485.
keydown(key, cur, total, d) ==
    IF key = "ArrowLeft" \/ key = "ArrowUp" THEN previousSlide(cur, total, d)
    ELSE IF key = "ArrowRight" \/ key = "ArrowDown" \/ key = " " THEN nextSlide(cur, total, d)
    ELSE IF key = "Home" THEN goToSlide(1, cur, total, d)
    ELSE IF key = "End" THEN goToSlide(total, cur, total, d)
    ELSE Js(cur, d, FALSE)

swipeThreshold == 50

abs(x) == IF x < 0 THEN 0 - x ELSE x

\* Mutant: a swipe of exactly the threshold navigates.
handleSwipe_atThreshold(startX, endX, cur, total, d) ==
    LET diff == startX - endX IN
    IF abs(diff) >= swipeThreshold
    THEN IF diff > 0 THEN nextSlide(cur, total, d) ELSE previousSlide(cur, total, d)
    ELSE Js(cur, d, FALSE)

handleSwipe(startX, endX, cur, total, d) ==
    LET diff == startX - endX IN
    IF abs(diff) > swipeThreshold
    THEN IF diff > 0 THEN nextSlide(cur, total, d) ELSE previousSlide(cur, total, d)
    ELSE Js(cur, d, FALSE)

\* The script's top level (currentSlide = 1, totalSlides = 0) and then the
\* DOMContentLoaded handler up to updateSlide(); the listeners are registered
\* only if updateSlide() returns.
onDOMContentLoaded(d) ==
    LET total == Len(d.active)
        u == updateSlide(1, total, [d EXCEPT !.total = total]) IN
    [currentSlide |-> 1, totalSlides |-> total, dom |-> u.dom, threw |-> u.threw]

(***************************************************************************)
(* The state machine.                                                      *)
(***************************************************************************)
InitialDirs ==
    {[dir |-> "absent", files |-> EmptyDir],
     [dir |-> "dir", files |-> EmptyDir],
     [dir |-> "dir", files |-> StaleDir],
     [dir |-> "file", files |-> EmptyDir]}

NoOp == [name |-> "none", arg |-> 0, from |-> 0]
Op(name, arg) == [name |-> name, arg |-> arg, from |-> currentSlide]

NoRun == [include_notes |-> FALSE, io |-> "none", before |-> [dir |-> "absent", files |-> EmptyDir]]
NoOut == [b \in BOOLEAN |-> [set |-> FALSE, run |-> 0, files |-> EmptyDir]]

NoEvent == [type |-> "none", key |-> "", from |-> 0, startX |-> 0]
Event(type, key) ==
    [type |-> type, key |-> key, from |-> currentSlide, startX |-> touchStartX]

NoExtract ==
    [slide |-> MkSlide(<<>>, FALSE, NoFrame), pos |-> 0,
     content |-> [title |-> <<>>, text |-> <<>>, notes |-> <<>>],
     titleAt |-> 0, done |-> FALSE]

NoCli == [exit_code |-> 0 - 1, stdout |-> <<>>, stderr |-> <<>>]

\* Neither _extract_slide_content nor main() is followed on its own.
Idle ==
    /\ ex = NoExtract
    /\ cli = NoCli

ClosedPage ==
    /\ page = "closed"
    /\ currentSlide = 1
    /\ totalSlides = 0
    /\ dom = NoDom
    /\ lastOp = NoOp
    /\ touchStartX = 0
    /\ touchEndX = 0
    /\ lastEvent = NoEvent

\* The converter has not been constructed yet.
Init ==
    /\ pptx_path \in Paths
    /\ ctor = Outcome("pending", "")
    /\ fs \in InitialDirs
    /\ result = [status |-> "none", path |-> ""]
    /\ runs = 0
    /\ last = NoRun
    /\ firstOut = NoOut
    /\ ClosedPage
    /\ Idle

\* PowerPointToHTML5Converter(pptx_path)
Construct ==
    /\ ctor.error = "pending"
    /\ ctor' = init_converter(pptx_path)
    /\ UNCHANGED <<pptx_path, fs, result, runs, last, firstOut>>
    /\ UNCHANGED pageVars
    /\ UNCHANGED otherVars

\* converter.convert(output_dir, include_notes)
Convert ==
    /\ ctor.error = "ok"
    /\ runs < MaxRuns
    /\ \E include_notes \in BOOLEAN, io \in IOFailures :
          LET r == convert(fs, pptx_path.content.deck, include_notes, io) IN
          /\ fs' = r.fs
          /\ result' = [status |-> r.status, path |-> r.path]
          /\ last' = [include_notes |-> include_notes, io |-> io, before |-> fs]
          /\ firstOut' =
                IF r.status = "returned" /\ ~firstOut[include_notes].set
                THEN [firstOut EXCEPT ![include_notes] =
                         [set |-> TRUE, run |-> runs + 1, files |-> r.fs.files]]
                ELSE firstOut
    /\ runs' = runs + 1
    /\ UNCHANGED <<pptx_path, ctor>>
    /\ UNCHANGED pageVars
    /\ UNCHANGED otherVars

Next ==
    \/ Construct
    \/ Convert

Spec == Init /\ [][Next]_vars

(***************************************************************************)
(* The pptx-to-html command: one call of main() per process, on any path   *)
(* and any state of the output directory.                                  *)
(***************************************************************************)
InitCli == Init

Main ==
    /\ cli = NoCli
    /\ \E include_notes \in BOOLEAN, io \in IOFailures :
          LET m == main(pptx_path, fs, include_notes, io) IN
          /\ ctor' = m.ctor
          /\ fs' = m.fs
          /\ result' = m.result
          /\ last' = [include_notes |-> include_notes, io |-> io, before |-> fs]
          /\ cli' = [exit_code |-> m.exit_code, stdout |-> m.stdout, stderr |-> m.stderr]
    /\ runs' = runs + 1
    /\ UNCHANGED <<pptx_path, firstOut, ex>>
    /\ UNCHANGED pageVars

NextCli == Main

SpecCli == InitCli /\ [][NextCli]_vars

(***************************************************************************)
(* _extract_slide_content followed shape by shape.  ex.pos counts the      *)
(* shapes the loop of lines 76-84 has been through, ex.content is the      *)
(* dictionary so far, ex.titleAt is the position of the shape that set the *)
(* title (0: none yet), ex.done is set by the notes step and the return.   *)
(***************************************************************************)
Shapes ==
    {TextShape(<<>>, TopHigh), TextShape(<<" ">>, TopHigh), TextShape(<<"A">>, TopHigh),
     TextShape(<<" ", "b", "\n">>, TopHigh), TextOnly(<<"C", " ">>, TopHigh),
     Picture(TopHigh)}

NotesVariants == {<<FALSE, NoFrame>>, <<TRUE, NoFrame>>, <<TRUE, Frame(<<"n", " ">>)>>}

ExtractSlides ==
    {MkSlide(shapes, n[1], n[2]) : shapes \in SeqsUpTo(Shapes, MaxShapes), n \in NotesVariants}

InitExtract ==
    /\ \E slide \in ExtractSlides :
          /\ pptx_path = [exists |-> TRUE, suffix |-> PptxSuffix,
                          content |-> [kind |-> "pptx",
                                       deck |-> [slides |-> <<slide>>,
                                                 slide_height |-> NoHeight]]]
          /\ ex = [NoExtract EXCEPT !.slide = slide]
    /\ ctor = Outcome("ok", "")
    /\ fs = [dir |-> "absent", files |-> EmptyDir]
    /\ result = [status |-> "none", path |-> ""]
    /\ runs = 0
    /\ last = NoRun
    /\ firstOut = NoOut
    /\ ClosedPage
    /\ cli = NoCli

\* One turn of "for shape in slide.shapes".
ExtractShape ==
    /\ ~ex.done
    /\ ex.pos < Len(ex.slide.shapes)
    /\ LET content == extract_shape(ex.content, ex.slide.shapes[ex.pos + 1]) IN
       ex' = [ex EXCEPT !.pos = @ + 1,
                        !.content = content,
                        !.titleAt = IF content.title # ex.content.title
                                    THEN ex.pos + 1 ELSE @]
    /\ UNCHANGED <<pptx_path, ctor, fs, result, runs, last, firstOut, cli>>
    /\ UNCHANGED pageVars

\* Lines 87-92: the speaker notes, and the return.
ExtractNotes ==
    /\ ~ex.done
    /\ ex.pos = Len(ex.slide.shapes)
    /\ ex' = [ex EXCEPT !.content.notes = extract_notes(ex.slide), !.done = TRUE]
    /\ UNCHANGED <<pptx_path, ctor, fs, result, runs, last, firstOut, cli>>
    /\ UNCHANGED pageVars

NextExtract ==
    \/ ExtractShape
    \/ ExtractNotes

SpecExtract == InitExtract /\ [][NextExtract]_vars

(***************************************************************************)
(* The rendered page.  It starts where convert(output_dir, include_notes)  *)
(* has just returned for a deck, into a directory that did not exist.      *)
(***************************************************************************)
Converted(deck, include_notes) ==
    convert([dir |-> "absent", files |-> EmptyDir], deck, include_notes, "none")

InitPage ==
    /\ \E deck \in Decks, include_notes \in BOOLEAN :
          LET r == Converted(deck, include_notes) IN
          /\ pptx_path = [exists |-> TRUE, suffix |-> PptxSuffix,
                          content |-> [kind |-> "pptx", deck |-> deck]]
          /\ fs = r.fs
          /\ result = [status |-> r.status, path |-> r.path]
          /\ last = [NoRun EXCEPT !.include_notes = include_notes]
          /\ firstOut = [NoOut EXCEPT ![include_notes] =
                            [set |-> TRUE, run |-> 1, files |-> r.fs.files]]
    /\ ctor = Outcome("ok", "")
    /\ runs = 1
    /\ ClosedPage
    /\ Idle

\* The browser opens the index.html convert() returned.
LoadPage ==
    /\ result.status = "returned"
    /\ page = "closed"
    /\ LET r == onDOMContentLoaded(parse_html(fs.files["index.html"])) IN
          /\ page' = IF r.threw THEN "crashed" ELSE "ready"
          /\ currentSlide' = r.currentSlide
          /\ totalSlides' = r.totalSlides
          /\ dom' = r.dom
    /\ lastOp' = Op("load", 0)
    /\ lastEvent' = Event("DOMContentLoaded", "")
    /\ UNCHANGED <<touchStartX, touchEndX>>
    /\ UNCHANGED pipeVars

Apply(r, op) ==
    /\ currentSlide' = r.currentSlide
    /\ dom' = r.dom
    /\ lastOp' = op
    /\ lastEvent' = Event("call", op.name)
    /\ UNCHANGED <<page, totalSlides, touchStartX, touchEndX>>
    /\ UNCHANGED pipeVars

NextSlide ==
    /\ page = "ready"
    /\ Apply(nextSlide(currentSlide, totalSlides, dom), Op("next", 0))

PreviousSlide ==
    /\ page = "ready"
    /\ Apply(previousSlide(currentSlide, totalSlides, dom), Op("previous", 0))

GoToSlide ==
    /\ page = "ready"
    /\ \E n \in (0 - 1)..(totalSlides + 1) :
          Apply(goToSlide(n, currentSlide, totalSlides, dom), Op("goTo", n))

NextPage ==
    \/ LoadPage
    \/ NextSlide
    \/ PreviousSlide
    \/ GoToSlide

SpecPage == InitPage /\ [][NextPage]_vars

(***************************************************************************)
(* The page under the user's hands: clicks, keys and touches.  The         *)
(* listeners of lines 469-498 exist only on a page whose DOMContentLoaded  *)
(* handler got past updateSlide() (page = "ready"); on any other page an   *)
(* event finds no listener.  A disabled button fires no click.             *)
(***************************************************************************)
Keys == {"ArrowLeft", "ArrowUp", "ArrowRight", "ArrowDown", " ", "Home", "End", "a"}
ScreenXs == {0, swipeThreshold, 2 * swipeThreshold + 1}

Dispatch(r, event) ==
    /\ page # "closed"
    /\ currentSlide' = IF page = "ready" THEN r.currentSlide ELSE currentSlide
    /\ dom' = IF page = "ready" THEN r.dom ELSE dom
    /\ lastEvent' = event
    /\ lastOp' = Op("event", 0)
    /\ UNCHANGED <<page, totalSlides>>
    /\ UNCHANGED pipeVars

ClickPrev ==
    /\ ~dom.prevDisabled
    /\ Dispatch(previousSlide(currentSlide, totalSlides, dom), Event("click", "prevBtn"))
    /\ UNCHANGED <<touchStartX, touchEndX>>

ClickNext ==
    /\ ~dom.nextDisabled
    /\ Dispatch(nextSlide(currentSlide, totalSlides, dom), Event("click", "nextBtn"))
    /\ UNCHANGED <<touchStartX, touchEndX>>

KeyDown ==
    \E key \in Keys :
       /\ Dispatch(keydown(key, currentSlide, totalSlides, dom), Event("keydown", key))
       /\ UNCHANGED <<touchStartX, touchEndX>>

TouchStart ==
    \E screenX \in ScreenXs :
       /\ Dispatch(Js(currentSlide, dom, FALSE), Event("touchstart", ""))
       /\ touchStartX' = IF page = "ready" THEN screenX ELSE touchStartX
       /\ UNCHANGED touchEndX

TouchEnd ==
    \E screenX \in ScreenXs :
       /\ Dispatch(handleSwipe(touchStartX, screenX, currentSlide, totalSlides, dom),
                   Event("touchend", ""))
       /\ touchEndX' = IF page = "ready" THEN screenX ELSE touchEndX
       /\ UNCHANGED touchStartX

NextTriggers ==
    \/ LoadPage
    \/ ClickPrev
    \/ ClickNext
    \/ KeyDown
    \/ TouchStart
    \/ TouchEnd

SpecTriggers == InitPage /\ [][NextTriggers]_vars

(***************************************************************************)
(* The page on which next keeps being triggered and nothing else happens:  *)
(* the browser fires DOMContentLoaded, and the next button is clicked      *)
(* whenever it can be.                                                     *)
(***************************************************************************)
NextOnly ==
    \/ LoadPage
    \/ ClickNext

SpecNextOnly ==
    /\ InitPage
    /\ [][NextOnly]_vars
    /\ WF_vars(LoadPage)
    /\ WF_vars(ClickNext)

(***************************************************************************)
(* Properties.                                                             *)
(***************************************************************************)
Deck == pptx_path.content.deck
Html == fs.files["index.html"]

\* C1: for a deck of at least one slide, once the page is initialised and
\* after any next, previous or goTo(n), currentSlide is an integer in
\* 1..totalSlides; right after initialisation it is 1.
C1_NavigationInvariant ==
    (Len(Deck.slides) >= 1 /\ page # "closed") =>
        /\ currentSlide \in Int
        /\ 1 <= currentSlide
        /\ currentSlide <= totalSlides
        /\ (lastOp.name = "load" => currentSlide = 1)

\* C1 witness: goTo(totalSlides + 1) was called on the last slide of a deck
\* of MaxSlides slides.
C1_Witness ==
    /\ page = "ready"
    /\ totalSlides = MaxSlides
    /\ lastOp.name = "goTo"
    /\ lastOp.arg = totalSlides + 1
    /\ lastOp.from = totalSlides
    /\ currentSlide = totalSlides

AtBoundary(op) ==
    \/ op.name = "previous" /\ op.from = 1
    \/ op.name = "next" /\ op.from = totalSlides
    \/ op.name = "goTo" /\ op.arg \in {0, totalSlides + 1}

\* C2: previous() on slide 1, next() on the last slide, goTo(0) and
\* goTo(totalSlides + 1) change neither currentSlide nor anything displayed.
C2_BoundaryNoOps ==
    [][AtBoundary(lastOp') => (currentSlide' = currentSlide /\ dom' = dom)]_vars

\* C2 witness: previous() was called on slide 1 of a deck of several slides.
C2_Witness ==
    /\ page = "ready"
    /\ totalSlides >= 2
    /\ lastOp.name = "previous"
    /\ lastOp.from = 1
    /\ currentSlide = 1
    /\ dom.prevDisabled

ActiveSlides == {k \in DOMAIN dom.active : dom.active[k]}

\* C3: after initialisation and after every transition exactly one container
\* is active, the one at currentSlide; the counter shows currentSlide; the
\* progress width is currentSlide / totalSlides * 100; the previous button is
\* disabled iff currentSlide = 1 and the next button iff currentSlide = totalSlides.
C3_DisplayConsistent ==
    page # "closed" =>
        /\ ActiveSlides = {currentSlide}
        /\ dom.counter = currentSlide
        /\ dom.progress.set
        /\ dom.progress.num * totalSlides = 100 * currentSlide * dom.progress.den
        /\ dom.prevDisabled <=> (currentSlide = 1)
        /\ dom.nextDisabled <=> (currentSlide = totalSlides)

\* C3 on the decks of at least one slide.
C3_DisplayConsistentNonEmpty ==
    Len(Deck.slides) >= 1 => C3_DisplayConsistent

Blocks(container, class) ==
    SelectSeq(container.content, LAMBDA b : b.class = class)

NotesOf(deck) ==
    {extract_notes(deck.slides[k]) : k \in 1..Len(deck.slides)} \ {<<>>}

\* C5: with include_notes = false the rendered markup holds no notes block
\* and no speaker-notes text, whatever notes the slides have.
C5_NoNotesWhenExcluded ==
    (result.status = "returned" /\ ~last.include_notes) =>
        /\ Html.title \notin NotesOf(Deck)
        /\ \A k \in 1..Len(Html.slides) :
              \A i \in 1..Len(Html.slides[k].content) :
                 LET b == Html.slides[k].content[i] IN
                 /\ b.class # "slide-notes"
                 /\ \A j \in 1..Len(b.paragraphs) : b.paragraphs[j] \notin NotesOf(Deck)

\* C5 witness: convert(include_notes = false) returned for a deck one of
\* whose slides has non-empty notes.
C5_Witness ==
    /\ result.status = "returned"
    /\ ~last.include_notes
    /\ NotesOf(Deck) # {}

\* What a record carries of the slide's shapes: its title, if any, and its text list.
Entries(content) ==
    (IF content.title = <<>> THEN <<>> ELSE <<content.title>>) \o content.text

\* C6: the record _extract_slide_content returns carries one entry per shape
\* of the slide, in shape order; no shape is dropped.
C6_NoShapeDropped ==
    result.status = "returned" =>
        \A k \in 1..Len(Deck.slides) :
           Len(Entries(extract_slide_content(Deck.slides[k]))) = Len(Deck.slides[k].shapes)

IsTextShape(shape) == shape.has_text /\ strip(shape.text) # <<>>

Qualifies(shape, height) ==
    IsTextShape(shape) /\ height.known /\ 4 * shape.top < height.emu

RECURSIVE FirstQualifying(_, _)
FirstQualifying(shapes, height) ==
    IF shapes = <<>> THEN <<>>
    ELSE IF Qualifies(Head(shapes), height) THEN strip(Head(shapes).text)
    ELSE FirstQualifying(Tail(shapes), height)

\* C7: the title of a slide is the text of the first text shape whose top is
\* strictly less than a quarter of the presentation height, and there is no
\* title when no shape qualifies or the height is unknown.
C7_TitleByQuarterHeight ==
    result.status = "returned" =>
        \A k \in 1..Len(Deck.slides) :
           extract_slide_content(Deck.slides[k]).title =
               FirstQualifying(Deck.slides[k].shapes, Deck.slide_height)

\* C8: construction fails with not-found for a missing path whatever its
\* extension, with a format error for an existing path whose extension is not
\* .pptx in any case, with a format error wrapping the parse failure for an
\* unparsable .pptx, and succeeds otherwise.
C8_ConstructionErrors ==
    ctor.error # "pending" =>
        /\ ~pptx_path.exists =>
              ctor = Outcome("FileNotFoundError", "File not found")
        /\ (pptx_path.exists /\ pptx_path.suffix \notin PptxSpellings) =>
              ctor = Outcome("ValueError", "File must be a .pptx file")
        /\ (pptx_path.exists /\ pptx_path.suffix \in PptxSpellings
                /\ pptx_path.content.kind # "pptx") =>
              ctor = Outcome("ValueError", "Invalid PowerPoint file")
        /\ (pptx_path.exists /\ pptx_path.suffix \in PptxSpellings
                /\ pptx_path.content.kind = "pptx") =>
              ctor.error = "ok"

\* C8 witness: construction on a missing path whose extension is not .pptx.
C8_Witness ==
    /\ ctor.error = "FileNotFoundError"
    /\ ~pptx_path.exists
    /\ pptx_path.suffix \notin PptxSpellings

\* C9: when convert returns, the output directory and its three files exist
\* and the path returned is index.html; when the directory cannot be created
\* or a write fails, convert raises.
C9_NoSilentPartialSuccess ==
    /\ result.status = "returned" =>
          /\ fs.dir = "dir"
          /\ \A n \in FileNames : fs.files[n] # NoFile
          /\ result.path = "index.html"
    /\ (runs >= 1 /\ (last.before.dir = "file" \/ last.io # "none")) =>
          result.status = "raised"

\* C9 witness: convert returned after creating a directory that was absent.
C9_Witness ==
    /\ result.status = "returned"
    /\ runs = 1
    /\ last.before.dir = "absent"
    /\ fs.dir = "dir"

\* C10: every successful convert with the same include_notes leaves the same
\* three files as the first one did, and as a convert into a fresh directory
\* does, whatever the directory held before.
C10_OverwriteIdempotent ==
    result.status = "returned" =>
        /\ firstOut[last.include_notes].set
        /\ fs.files = firstOut[last.include_notes].files
        /\ fs.files = Converted(Deck, last.include_notes).fs.files

\* C10 witness: a later convert returned with the include_notes of an
\* earlier successful one, into a directory that held other content.
C10_Witness ==
    /\ result.status = "returned"
    /\ firstOut[last.include_notes].run < runs
    /\ last.before.files # fs.files
    /\ last.before.files["index.html"].kind = "html"

\* The shape the loop of _extract_slide_content is about to take.
AtShape == ex.slide.shapes[ex.pos + 1]

EmptyAfterStrip(shape) == ~shape.has_text \/ strip(shape.text) = <<>>

\* The slide container the template emits for the slide that was extracted.
ExtractedContainer(include_notes) ==
    render_slide(slide_data(ex.slide, 0, include_notes), TRUE, include_notes)

Paragraphs(container) ==
    UNION {{b.paragraphs[k] : k \in 1..Len(b.paragraphs)} :
             b \in {container.content[j] : j \in
                       {i \in 1..Len(container.content) :
                           container.content[i].class \in {"slide-title", "slide-text"}}}}

\* C11: empty text is never emitted.  A shape whose text is empty after
\* trimming leaves the title and the text list as they were, every entry of
\* the text list and a title that was set are non-empty, and so is every
\* title and text paragraph of the rendered slide container.
C11_Entries ==
    /\ \A k \in 1..Len(ex.content.text) : ex.content.text[k] # <<>>
    /\ ex.titleAt # 0 => ex.content.title # <<>>
    /\ ex.done =>
          /\ ex.content = extract_slide_content(ex.slide)
          /\ \A include_notes \in BOOLEAN :
                \A p \in Paragraphs(ExtractedContainer(include_notes)) : p # <<>>

C11_EmptyShapeStep ==
    (~ex.done /\ ex.pos < Len(ex.slide.shapes) /\ EmptyAfterStrip(AtShape))
        => ex'.content = ex.content

C11_NoEmptyText == [](C11_Entries) /\ [][C11_EmptyShapeStep]_vars

\* A shape of blanks has been passed after the title was set, and the slide is rendered.
C11_Witness ==
    /\ ex.done
    /\ ex.titleAt # 0
    /\ \E k \in 1..Len(ex.slide.shapes) :
          /\ k > ex.titleAt
          /\ ex.slide.shapes[k].has_text
          /\ ex.slide.shapes[k].text # <<>>
          /\ strip(ex.slide.shapes[k].text) = <<>>
    /\ ex.content.text # <<>>

\* What went wrong in the run of main(), told from the input file, the output
\* directory and the calls the environment made fail.
Failure ==
    IF ~pptx_path.exists THEN "file not found"
    ELSE IF lower(pptx_path.suffix) # PptxSuffix \/ pptx_path.content.kind # "pptx"
    THEN "invalid file"
    ELSE IF last.before.dir = "file" \/ last.io # "none" THEN "unexpected error"
    ELSE "none"

Category(diagnostic) ==
    IF diagnostic.prefix = "Unexpected error" THEN "unexpected error"
    ELSE IF diagnostic.prefix = "Error" /\ diagnostic.message = "File not found"
    THEN "file not found"
    ELSE IF diagnostic.prefix = "Error"
            /\ diagnostic.message \in {"File must be a .pptx file", "Invalid PowerPoint file"}
    THEN "invalid file"
    ELSE "other"

C12_WitnessNotFound ==
    cli.exit_code = 1 /\ Failure = "file not found"

C12_WitnessInvalid ==
    cli.exit_code = 1 /\ Failure = "invalid file" /\ pptx_path.content.kind = "garbage"

C12_WitnessSuccess ==
    cli.exit_code = 0 /\ Len(Deck.slides) = MaxSlides

\* What the step's event has to do by the mapping of C13.
Performs(r) ==
    /\ currentSlide' = r.currentSlide
    /\ dom' = r.dom

PerformsPrevious == Performs(previousSlide(currentSlide, totalSlides, dom))
PerformsNext == Performs(nextSlide(currentSlide, totalSlides, dom))
PerformsNothing == currentSlide' = currentSlide /\ dom' = dom

SwipeDistance == touchStartX - touchEndX'

TriggerMapping ==
    LET e == lastEvent' IN
    /\ (e.type = "click" /\ e.key = "prevBtn") => PerformsPrevious
    /\ (e.type = "click" /\ e.key = "nextBtn") => PerformsNext
    /\ (e.type = "keydown" /\ e.key \in {"ArrowLeft", "ArrowUp"}) => PerformsPrevious
    /\ (e.type = "keydown" /\ e.key \in {"ArrowRight", "ArrowDown", " "}) => PerformsNext
    /\ (e.type = "keydown" /\ e.key = "Home") => currentSlide' = 1
    /\ (e.type = "keydown" /\ e.key = "End") => currentSlide' = totalSlides
    /\ (e.type = "keydown"
          /\ e.key \notin {"ArrowLeft", "ArrowUp", "ArrowRight", "ArrowDown", " ",
                           "Home", "End"}) => PerformsNothing
    /\ e.type = "touchstart" => PerformsNothing
    /\ (e.type = "touchend" /\ abs(SwipeDistance) <= 50) => PerformsNothing
    /\ (e.type = "touchend" /\ abs(SwipeDistance) > 50 /\ SwipeDistance > 0) => PerformsNext
    /\ (e.type = "touchend" /\ abs(SwipeDistance) > 50 /\ SwipeDistance < 0)
          => PerformsPrevious

\* C13: the trigger mapping.  Every click, key and touch of a page that has
\* been opened does what the mapping says: previous for the previous button,
\* ArrowLeft and ArrowUp; next for the next button, ArrowRight, ArrowDown and
\* space; currentSlide = 1 after Home and currentSlide = totalSlides after
\* End; next or previous for a swipe of more than 50 by the sign of start
\* minus end, nothing for a swipe of 50 or less; nothing for any other key.
C13_TriggerMapping == [][TriggerMapping]_vars

\* The same on the pages whose listeners were registered.
C13_TriggerMappingReady == [][page = "ready" => TriggerMapping]_vars

\* End was pressed on a page that shows a slide before the last one.
C13_WitnessEnd ==
    /\ page = "ready"
    /\ lastEvent.type = "keydown"
    /\ lastEvent.key = "End"
    /\ lastEvent.from < totalSlides
    /\ currentSlide = totalSlides

\* A swipe of exactly the threshold ended on a slide that has a next one.
C13_WitnessThreshold ==
    /\ page = "ready"
    /\ lastEvent.type = "touchend"
    /\ lastEvent.startX - touchEndX = swipeThreshold
    /\ currentSlide = lastEvent.from
    /\ currentSlide < totalSlides

\* C14: the navigation script never dereferences a slide outside the
\* rendered set.  On every opened page, the page of a deck without slides
\* included, each updateSlide() so far indexed a position currentSlide - 1
\* within 0..totalSlides - 1 (none threw), and totalSlides, the divisor of
\* the progress computation, is not zero.
C14_NoOutOfRangeSlide ==
    page # "closed" =>
        /\ page = "ready"
        /\ (currentSlide - 1) \in 0..(totalSlides - 1)
        /\ totalSlides # 0

\* The same for the decks of at least one slide.
C14_NoOutOfRangeSlideNonEmpty ==
    Len(Deck.slides) >= 1 => C14_NoOutOfRangeSlide

\* The trimmed texts of the first n shapes that have any, in shape order,
\* the shape at position skip left out.
RECURSIVE TextsUpTo(_, _, _)
TextsUpTo(shapes, n, skip) ==
    IF n = 0 THEN <<>>
    ELSE LET rest == TextsUpTo(shapes, n - 1, skip) IN
         IF n # skip /\ IsTextShape(shapes[n])
         THEN Append(rest, strip(shapes[n].text))
         ELSE rest

C15_EachTextOnce ==
    /\ ex.titleAt = 0 => ex.content.title = <<>>
    /\ ex.titleAt # 0 =>
          /\ ex.titleAt \in 1..ex.pos
          /\ IsTextShape(ex.slide.shapes[ex.titleAt])
          /\ ex.content.title = strip(ex.slide.shapes[ex.titleAt].text)
    /\ ex.content.text = TextsUpTo(ex.slide.shapes, ex.pos, ex.titleAt)

C15_TitleKeptStep ==
    ex.content.title # <<>> => ex'.content.title = ex.content.title

\* C15: in _extract_slide_content every shape whose trimmed text is
\* non-empty contributes that text exactly once: the title is the text of one
\* such shape, the text list is the texts of all the others in shape order,
\* and a title that is set is never replaced by a later shape.
C15_ExactlyOnceInOrder == [](C15_EachTextOnce) /\ [][C15_TitleKeptStep]_vars

\* A slide whose second shape gave the title, with a text before and one after it.
C15_Witness ==
    /\ ex.done
    /\ ex.titleAt = 2
    /\ Len(ex.slide.shapes) >= 3
    /\ ex.slide.shapes[3].has_text_frame
    /\ Len(ex.content.text) = 2
    /\ ex.content.text[2] # ex.content.title

\* The slides next and previous lead to from slide i, in one call.
OneCall(i) ==
    {nextSlide(i, totalSlides, dom).currentSlide,
     previousSlide(i, totalSlides, dom).currentSlide}

RECURSIVE Within(_, _)
Within(S, n) ==
    IF n = 0 THEN S ELSE Within(S \cup UNION {OneCall(i) : i \in S}, n - 1)

\* From every slide, next and previous move by one slide or not at all, and
\* through them every slide is reached from every other.
C16_NoSkipAllReachable ==
    page # "closed" =>
        \A i \in 1..totalSlides :
           /\ nextSlide(i, totalSlides, dom).currentSlide \in {i, i + 1}
           /\ previousSlide(i, totalSlides, dom).currentSlide \in {i, i - 1}
           /\ Within({i}, totalSlides) = 1..totalSlides

C16_EffectiveStep ==
    currentSlide' # currentSlide => currentSlide' = currentSlide + 1

\* C16: navigation progresses without skipping.  A next or previous that
\* changes currentSlide changes it by exactly 1, every slide of
\* 1..totalSlides is reached from every other through next and previous,
\* and when next keeps being triggered and nothing else happens, currentSlide
\* eventually equals totalSlides and stays there.
C16_ProgressWithoutSkipping ==
    /\ [](C16_NoSkipAllReachable)
    /\ [][C16_EffectiveStep]_vars
    /\ <>[](currentSlide = totalSlides)

\* The same for the decks of at least one slide.
C16_ProgressWithoutSkippingNonEmpty ==
    /\ [](C16_NoSkipAllReachable)
    /\ [][C16_EffectiveStep]_vars
    /\ <>[](Len(Deck.slides) >= 1 => currentSlide = totalSlides)

\* The last of MaxSlides slides was reached by clicking next.
C16_WitnessLast ==
    /\ page = "ready"
    /\ totalSlides = MaxSlides
    /\ currentSlide = totalSlides
    /\ lastEvent.type = "click"
    /\ lastEvent.from = totalSlides - 1

====
